---- MODULE Spec2Model ----
(***************************************************************************)
(* Model of sphinx_material/__init__.py: the table-of-contents converter   *)
(* (_TocVisitor, _get_mkdocs_toc) and the build hooks that share two       *)
(* multiprocessing manager lists (add_html_link, create_sitemap,           *)
(* reformat_pages, minify_css).                                            *)
(***************************************************************************)
EXTENDS Naturals, Integers, Sequences, FiniteSets, TLC

VARIABLES
    \* ---- _get_mkdocs_toc ----
    toc_node,       \* the docutils tree handed to _get_mkdocs_toc
    exclude_local,  \* the exclude_local argument
    visitor,        \* the fields of the top-level _TocVisitor
    todo,           \* paths of the nodes toc_node.walk(visitor) has still to visit
    pc,             \* "walk", "returned" or "raised"
    nav,            \* the list _get_mkdocs_toc returned
    \* ---- build hooks ----
    options,        \* app.config["html_theme_options"]
    sitemap_links,  \* app.sitemap_links, a manager list
    site_pages,     \* app.site_pages, a manager list
    manager,        \* "running" or "shutdown"
    wpc,            \* per worker: where it is inside add_html_link
    wpage,          \* per worker: the page it is writing
    written,        \* number of pages handed to workers so far
    exception,      \* the exception the build ended with, or "None"
    phase,          \* position in the build
    sitemap,        \* the <loc> texts written to sitemap.xml
    rewrites,       \* the pages reformat_pages rewrote, in order
    log             \* what happened at build-finished, in order

tocvars == <<toc_node, exclude_local, visitor, todo, pc, nav>>
buildvars == <<options, sitemap_links, site_pages, manager, wpc, wpage, written,
               exception, phase, sitemap, rewrites, log>>
vars == <<tocvars, buildvars>>

(***************************************************************************)
(* Python values.  A str is a sequence of characters; None is kept apart   *)
(* from every str (the empty one included).                                *)
(***************************************************************************)
None == [none |-> TRUE, s |-> <<>>]
Str(s) == [none |-> FALSE, s |-> s]

\* str.find(c): index of the first occurrence of character c, or -1.
find(s, c) ==
    IF \E i \in 1..Len(s) : s[i] = c
    THEN (CHOOSE i \in 1..Len(s) : s[i] = c /\ \A j \in 1..(i - 1) : s[j] # c) - 1
    ELSE -1

_strip_fragment(url) ==
    LET fragment_start == find(url, "#")
    IN IF fragment_start = -1 THEN url ELSE SubSeq(url, 1, fragment_start)

(***************************************************************************)
(* docutils nodes.  Every node is a record of the same shape:              *)
(*   kind       the node class                                             *)
(*   refuri     node.get('refuri') (references)                            *)
(*   text       astext() of each child (references, captions)              *)
(*   iscurrent  node.get('iscurrent', False)                               *)
(*   children   node.children (the element children)                       *)
(* A node is identified by its path from the root, the sequence of child   *)
(* indices; node.parent is the path without its last index.                *)
(***************************************************************************)
Node(kind, refuri, text, iscurrent, children) ==
    [kind |-> kind, refuri |-> refuri, text |-> text,
     iscurrent |-> iscurrent, children |-> children]

reference(refuri, text) == Node("reference", refuri, text, FALSE, <<>>)
caption(text) == Node("caption", None, text, FALSE, <<>>)
compact_paragraph(children) == Node("compact_paragraph", None, <<>>, FALSE, children)
paragraph(children) == Node("paragraph", None, <<>>, FALSE, children)
toctree(children) == Node("toctree", None, <<>>, FALSE, children)
bullet_list(iscurrent, children) == Node("bullet_list", None, <<>>, iscurrent, children)
list_item(iscurrent, children) == Node("list_item", None, <<>>, iscurrent, children)

Parent(path) == SubSeq(path, 1, Len(path) - 1)

RECURSIVE NodeAt(_, _)
NodeAt(node, path) ==
    IF path = <<>> THEN node ELSE NodeAt(node.children[Head(path)], Tail(path))

ChildPaths(node, path) == [i \in 1..Len(node.children) |-> Append(path, i)]

(***************************************************************************)
(* _TocVisitor                                                             *)
(***************************************************************************)
NoCaption == [none |-> TRUE, path |-> <<>>, text |-> <<>>]

\* _TocVisitor.__init__; exc is the exception a handler raised, if any.
NewVisitor(excl) ==
    [prev_caption |-> NoCaption,
     rendered_title |-> None,
     url |-> None,
     active |-> FALSE,
     children |-> <<>>,
     exclude_local |-> excl,
     local_only |-> TRUE,
     exc |-> "None"]

RECURSIVE Join(_)
Join(pieces) == IF pieces = <<>> THEN <<>> ELSE Head(pieces) \o Join(Tail(pieces))

\* ''.join(x.astext() for x in node)
_render_title(text) == Str(Join(text))

\* What a handler hands back to walk(): the visitor, and whether it raised
\* SkipChildren.
Visited(v, skip) == [v |-> v, skip |-> skip]

\* visit_reference taking a url for local only when the '#' is its first
\* character.
visit_reference_path_counts(self, node) ==
    LET v1 == [self EXCEPT !.rendered_title = _render_title(node.text),
                           !.url = node.refuri]
    IN IF ~self.exclude_local THEN Visited(v1, TRUE)
       ELSE IF v1.url.none
            THEN Visited([v1 EXCEPT !.exc = "AttributeError"], TRUE)
            ELSE IF find(v1.url.s, "#") # 0
                 THEN Visited([v1 EXCEPT !.local_only = FALSE], TRUE)
                 ELSE Visited(v1, TRUE)

visit_reference(self, node) ==
    LET v1 == [self EXCEPT !.rendered_title = _render_title(node.text),
                           !.url = node.refuri]
    IN IF ~self.exclude_local THEN Visited(v1, TRUE)
       ELSE IF v1.url.none
            THEN Visited([v1 EXCEPT !.exc = "AttributeError"], TRUE)
            ELSE IF find(v1.url.s, "#") = -1
                 THEN Visited([v1 EXCEPT !.local_only = FALSE], TRUE)
                 ELSE Visited(v1, TRUE)

visit_compact_paragraph(self, node) == Visited(self, FALSE)

\* visit_toctree without the SkipChildren.
visit_toctree_descends(self, node) == Visited(self, FALSE)

visit_toctree(self, node) == Visited(self, TRUE)

visit_paragraph(self, node) == Visited(self, FALSE)

visit_caption(self, node, path) ==
    Visited([self EXCEPT !.prev_caption =
                 [none |-> FALSE, path |-> path, text |-> node.text]], TRUE)

\* The dict get_result builds.  src is not a key of the dict: it records the
\* path of the source node the entry was made for, so that properties can
\* relate an entry to its source.
Entry(title, url, children, active, src) ==
    [title |-> title, url |-> url, children |-> children, active |-> active,
     src |-> src]

get_result(self, src) ==
    Entry(self.rendered_title, self.url, self.children, self.active, src)

_is_child_local(self, child) ==
    IF (self.url.none \/ self.url.s = <<>>) \/ (child.url.none \/ child.url.s = <<>>)
    THEN FALSE
    ELSE _strip_fragment(self.url.s) = _strip_fragment(child.url.s)

RECURSIVE Walk(_, _, _)
RECURSIVE WalkAll(_, _, _, _)
RECURSIVE visit_bullet_list(_, _, _)
RECURSIVE visit_list_item(_, _, _)

\* visit_bullet_list taking the group's url from its last child.
visit_bullet_list_last_url(self, node, path) ==
    IF ~self.prev_caption.none /\ Parent(self.prev_caption.path) = Parent(path)
    THEN LET title == _render_title(self.prev_caption.text)
             start == [NewVisitor(self.exclude_local) EXCEPT
                          !.active = node.iscurrent]
             child_visitor == Walk(node, path, start)
             children == child_visitor.children
             url == IF children # <<>> THEN children[Len(children)].url ELSE None
             v1 == [self EXCEPT !.prev_caption = NoCaption]
             v2 == IF ~child_visitor.local_only
                   THEN [v1 EXCEPT !.local_only = FALSE] ELSE v1
         IN IF child_visitor.exc # "None"
            THEN Visited([v1 EXCEPT !.exc = child_visitor.exc], TRUE)
            ELSE Visited([v2 EXCEPT !.children =
                             Append(@, Entry(title, url, children,
                                             child_visitor.active, path))], TRUE)
    ELSE Visited(self, FALSE)

\* visit_list_item pruning on the local-only flag alone, whatever
\* exclude_local is.
visit_list_item_prunes_always(self, node, path) ==
    LET start == [NewVisitor(self.exclude_local) EXCEPT !.active = node.iscurrent]
        child_visitor == WalkAll(node.children, path, 1, start)
        child_result == get_result(child_visitor, path)
    IN IF child_visitor.exc # "None"
       THEN Visited([self EXCEPT !.exc = child_visitor.exc], TRUE)
       ELSE IF child_visitor.local_only
            THEN Visited(self, TRUE)
            ELSE Visited([self EXCEPT !.local_only = FALSE,
                                      !.children = Append(@, child_result)], TRUE)

\* visit_list_item appending a surviving entry without clearing its own
\* local-only flag.
visit_list_item_keeps_flag(self, node, path) ==
    LET start == [NewVisitor(self.exclude_local) EXCEPT !.active = node.iscurrent]
        child_visitor == WalkAll(node.children, path, 1, start)
        child_result == get_result(child_visitor, path)
    IN IF child_visitor.exc # "None"
       THEN Visited([self EXCEPT !.exc = child_visitor.exc], TRUE)
       ELSE IF self.exclude_local /\ child_visitor.local_only
            THEN Visited(self, TRUE)
            ELSE Visited([self EXCEPT !.children = Append(@, child_result)], TRUE)

\* visit_list_item putting the new entry in front of the earlier ones.
visit_list_item_prepends(self, node, path) ==
    LET start == [NewVisitor(self.exclude_local) EXCEPT !.active = node.iscurrent]
        child_visitor == WalkAll(node.children, path, 1, start)
        child_result == get_result(child_visitor, path)
    IN IF child_visitor.exc # "None"
       THEN Visited([self EXCEPT !.exc = child_visitor.exc], TRUE)
       ELSE IF self.exclude_local /\ child_visitor.local_only
            THEN Visited(self, TRUE)
            ELSE Visited([self EXCEPT !.local_only = FALSE,
                                      !.children = <<child_result>> \o @], TRUE)

\* visit_bullet_list clearing its own local-only flag for every group it
\* appends, as visit_list_item does for every entry it appends.
visit_bullet_list_marks_parent(self, node, path) ==
    IF ~self.prev_caption.none /\ Parent(self.prev_caption.path) = Parent(path)
    THEN LET title == _render_title(self.prev_caption.text)
             start == [NewVisitor(self.exclude_local) EXCEPT
                          !.active = node.iscurrent]
             child_visitor == Walk(node, path, start)
             children == child_visitor.children
             url == IF children # <<>> THEN children[1].url ELSE None
             v1 == [self EXCEPT !.prev_caption = NoCaption]
             v2 == [v1 EXCEPT !.local_only = FALSE]
         IN IF child_visitor.exc # "None"
            THEN Visited([v1 EXCEPT !.exc = child_visitor.exc], TRUE)
            ELSE Visited([v2 EXCEPT !.children =
                             Append(@, Entry(title, url, children,
                                             child_visitor.active, path))], TRUE)
    ELSE Visited(self, FALSE)

\* visit_bullet_list wrapping under any pending caption, whatever its parent.
visit_bullet_list_any_parent(self, node, path) ==
    IF ~self.prev_caption.none
    THEN LET title == _render_title(self.prev_caption.text)
             start == [NewVisitor(self.exclude_local) EXCEPT
                          !.active = node.iscurrent]
             child_visitor == Walk(node, path, start)
             children == child_visitor.children
             url == IF children # <<>> THEN children[1].url ELSE None
             v1 == [self EXCEPT !.prev_caption = NoCaption]
             v2 == IF ~child_visitor.local_only
                   THEN [v1 EXCEPT !.local_only = FALSE] ELSE v1
         IN IF child_visitor.exc # "None"
            THEN Visited([v1 EXCEPT !.exc = child_visitor.exc], TRUE)
            ELSE Visited([v2 EXCEPT !.children =
                             Append(@, Entry(title, url, children,
                                             child_visitor.active, path))], TRUE)
    ELSE Visited(self, FALSE)

visit_bullet_list(self, node, path) ==
    IF ~self.prev_caption.none /\ Parent(self.prev_caption.path) = Parent(path)
    THEN LET title == _render_title(self.prev_caption.text)
             start == [NewVisitor(self.exclude_local) EXCEPT
                          !.active = node.iscurrent]
             child_visitor == Walk(node, path, start)
             children == child_visitor.children
             url == IF children # <<>> THEN children[1].url ELSE None
             v1 == [self EXCEPT !.prev_caption = NoCaption]
             v2 == IF ~child_visitor.local_only
                   THEN [v1 EXCEPT !.local_only = FALSE] ELSE v1
         IN IF child_visitor.exc # "None"
            THEN Visited([v1 EXCEPT !.exc = child_visitor.exc], TRUE)
            ELSE Visited([v2 EXCEPT !.children =
                             Append(@, Entry(title, url, children,
                                             child_visitor.active, path))], TRUE)
    ELSE Visited(self, FALSE)

visit_list_item(self, node, path) ==
    LET start == [NewVisitor(self.exclude_local) EXCEPT !.active = node.iscurrent]
        child_visitor == WalkAll(node.children, path, 1, start)
        child_result == get_result(child_visitor, path)
    IN IF child_visitor.exc # "None"
       THEN Visited([self EXCEPT !.exc = child_visitor.exc], TRUE)
       ELSE IF self.exclude_local /\ child_visitor.local_only
            THEN Visited(self, TRUE)
            ELSE Visited([self EXCEPT !.local_only = FALSE,
                                      !.children = Append(@, child_result)], TRUE)

\* NodeVisitor.dispatch_visit: the handler named after the node's class.
dispatch_visit(self, node, path) ==
    CASE node.kind = "reference" -> visit_reference(self, node)
      [] node.kind = "compact_paragraph" -> visit_compact_paragraph(self, node)
      [] node.kind = "toctree" -> visit_toctree(self, node)
      [] node.kind = "paragraph" -> visit_paragraph(self, node)
      [] node.kind = "caption" -> visit_caption(self, node, path)
      [] node.kind = "bullet_list" -> visit_bullet_list(self, node, path)
      [] node.kind = "list_item" -> visit_list_item(self, node, path)

\* node.walk(visitor): visit the node, then, unless the handler raised
\* SkipChildren, walk its children in order.  An exception ends the walk.
Walk(node, path, self) ==
    LET r == dispatch_visit(self, node, path)
    IN IF r.v.exc # "None" \/ r.skip THEN r.v
       ELSE WalkAll(node.children, path, 1, r.v)

\* for child in children: child.walk(visitor), from the i-th child on.
WalkAll(children, path, i, self) ==
    IF i > Len(children) \/ self.exc # "None" THEN self
    ELSE WalkAll(children, path, i + 1, Walk(children[i], Append(path, i), self))

\* _get_mkdocs_toc as a function of its arguments: the list it returns, or
\* the exception that leaves it.
_get_mkdocs_toc(root, excl) ==
    LET v == Walk(root, <<>>, NewVisitor(excl))
    IN [exc |-> v.exc, value |-> IF v.exc = "None" THEN v.children ELSE <<>>]

(***************************************************************************)
(* The trees the converter is run on.  A table of contents is a forest of  *)
(* entries, each a list_item holding compact_paragraph[reference] and,     *)
(* when it has sub-entries, a nested bullet_list.  The forests with at     *)
(* most MaxItems entries are enumerated, each entry linking either to an   *)
(* anchor of the page (#a) or to another page (p); at most one entry of a  *)
(* forest carries one of the Decors below, and counts for two.             *)
(***************************************************************************)
MaxItems == 4

LocalUrl == Str(<<"#", "a">>)
PageUrl == Str(<<"p">>)
PageFragUrl == Str(<<"p", "#", "x">>)
RefText == << <<"T">> >>
CaptionText == << <<"C", "h">>, <<"1">> >>

Decors == {"nouri",     \* the reference has no refuri
           "fragurl",   \* the reference links to an anchor of another page
           "cur",       \* the list_item alone is marked iscurrent
           "curchain",  \* the list_item and every list and item above it are
                        \* marked, as sphinx marks the path to the current page
           "curlist",   \* the nested bullet_list alone is marked iscurrent
           "caption",   \* a caption precedes the nested bullet_list
           "toctree"}   \* a toctree node with children follows the reference

Item(url, d, kids) == [url |-> url, d |-> d, kids |-> kids]

\* The entries with n list items in all, b of them decorated, given the
\* forests of fewer items: F[m + 1][c + 1] holds those of m items, c decorated.
Items(F, n, b) ==
    {Item(url, "none", kids) : url \in {LocalUrl, PageUrl}, kids \in F[n][b + 1]}
    \cup (IF b = 1
          THEN {Item(url, d, kids) : url \in {LocalUrl, PageUrl}, d \in Decors,
                                     kids \in F[n][1]}
          ELSE {})

RECURSIVE ForestTable(_)
ForestTable(n) ==
    IF n = 0 THEN << <<{<<>>}, {}>> >>
    ELSE LET F == ForestTable(n - 1)
             row(b) ==
                 UNION {UNION {{<<t>> \o f : t \in Items(F, k, b1),
                                             f \in F[n - k + 1][b - b1 + 1]}
                               : b1 \in 0..b}
                        : k \in 1..n}
         IN Append(F, <<row(0), IF n < MaxItems THEN row(1) ELSE {}>>)

RECURSIVE HasChain(_)
HasChain(it) ==
    it.d = "curchain" \/ \E i \in 1..Len(it.kids) : HasChain(it.kids[i])

ForestHasChain(f) == \E i \in 1..Len(f) : HasChain(f[i])

PageItem == list_item(FALSE, <<compact_paragraph(<<reference(PageUrl, RefText)>>)>>)

RECURSIVE BuildItem(_)
RECURSIVE BuildForest(_)
BuildForest(f) ==
    IF f = <<>> THEN <<>> ELSE <<BuildItem(Head(f))>> \o BuildForest(Tail(f))

BuildItem(it) ==
    LET ref == reference(CASE it.d = "nouri" -> None
                           [] it.d = "fragurl" -> PageFragUrl
                           [] OTHER -> it.url, RefText)
        bl == bullet_list(it.d = "curlist" \/ ForestHasChain(it.kids),
                          BuildForest(it.kids))
        nested == IF it.kids = <<>> THEN <<>>
                  ELSE IF it.d = "caption" THEN <<caption(CaptionText), bl>>
                  ELSE <<bl>>
        toc == IF it.d = "toctree"
               THEN <<toctree(<<PageItem, reference(PageUrl, RefText)>>)>>
               ELSE <<>>
    IN list_item(it.d = "cur" \/ HasChain(it),
                 <<compact_paragraph(<<ref>>)>> \o toc \o nested)

\* The node the forest's own bullet_list sits in.
Layouts == {"list", "plain", "caption", "capsep", "cappar", "cap2", "capnest",
            "caprepl", "toctree", "ref"}

Root(layout, f) ==
    LET L == bullet_list(ForestHasChain(f), BuildForest(f))
        cap == caption(CaptionText)
    IN CASE layout = "list" -> L
         [] layout = "plain" -> compact_paragraph(<<L>>)
         [] layout = "caption" -> compact_paragraph(<<cap, L>>)
         [] layout = "capsep" -> compact_paragraph(<<cap, paragraph(<<>>), L>>)
         [] layout = "cappar" -> compact_paragraph(<<paragraph(<<cap>>), L>>)
         [] layout = "cap2" -> compact_paragraph(<<cap, L, bullet_list(FALSE, <<PageItem>>)>>)
         [] layout = "capnest" ->
                compact_paragraph(<<cap, paragraph(<<bullet_list(FALSE, <<PageItem>>)>>), L>>)
         [] layout = "caprepl" -> compact_paragraph(<<cap, paragraph(<<cap>>), L>>)
         [] layout = "toctree" -> compact_paragraph(<<toctree(<<L>>), L>>)
         [] layout = "ref" -> compact_paragraph(<<reference(PageUrl, RefText), L>>)

\* ForestSets[n + 1][b + 1]: the forests of n list items, b of them decorated
\* (none decorated among those of MaxItems items).
ForestSets == ForestTable(MaxItems)

\* toc is one of the trees: a forest in any layout, or a decorated forest as
\* the list of a toctree, captioned or not.
IsTree(toc) ==
    \E n \in 1..MaxItems, b \in 0..1 :
        \E layout \in (IF b = 0 THEN Layouts ELSE {"plain", "caption"}) :
            \E f \in ForestSets[n + 1][b + 1] : toc = Root(layout, f)

(***************************************************************************)
(* The build hooks.  setup() creates a multiprocessing Manager and two     *)
(* manager lists; add_html_link runs in the (parallel) writer processes    *)
(* for every page, the build-finished handlers run once in the main        *)
(* process, in the order setup() connected them.                           *)
(***************************************************************************)
NumWorkers == 2
MaxPages == 2

Workers == 1..NumWorkers

\* html_theme_options: site_url is '' or a url without or with its final '/'.
SiteUrls == {<<>>, <<"s">>, <<"s", "/">>}
Options ==
    [site_url : SiteUrls, html_minify : BOOLEAN, html_prettify : BOOLEAN,
     css_minify : BOOLEAN]

pagename(i) == <<ToString(i)>>
link_suffix == <<".html">>

Event(ev, x) == [ev |-> ev, x |-> x]

\* setup(): the manager and its two empty lists.
setup ==
    /\ options \in Options
    /\ sitemap_links = <<>>
    /\ site_pages = <<>>
    /\ manager = "running"
    /\ wpc = [w \in Workers |-> "idle"]
    /\ wpage = [w \in Workers |-> 0]
    /\ written = 0
    /\ exception = "None"
    /\ phase = "writing"
    /\ sitemap = <<>>
    /\ rewrites = <<>>
    /\ log = <<>>

\* A writer process takes the next page; html-page-context is emitted for it.
StartPage(w) ==
    /\ phase = "writing"
    /\ wpc[w] \in {"idle", "returned"}
    /\ written < MaxPages
    /\ written' = written + 1
    /\ wpage' = [wpage EXCEPT ![w] = written + 1]
    /\ wpc' = [wpc EXCEPT ![w] = "add_html_link"]
    /\ UNCHANGED <<options, sitemap_links, site_pages, manager, exception, phase,
                   sitemap, rewrites, log>>
    /\ UNCHANGED tocvars

\* add_html_link, up to the append to app.sitemap_links.
AddHtmlLinkSitemap(w) ==
    /\ phase = "writing"
    /\ wpc[w] = "add_html_link"
    /\ LET base_url == options.site_url
           with_slash == IF base_url[Len(base_url)] # "/"
                         THEN Append(base_url, "/") ELSE base_url
           full_url == with_slash \o pagename(wpage[w]) \o link_suffix
       IN IF base_url # <<>>
          THEN /\ sitemap_links' = Append(sitemap_links, full_url)
               /\ log' = Append(log, Event("append_link", full_url))
          ELSE UNCHANGED <<sitemap_links, log>>
    /\ wpc' = [wpc EXCEPT ![w] = "check"]
    /\ UNCHANGED <<options, site_pages, manager, wpage, written, exception, phase,
                   sitemap, rewrites>>
    /\ UNCHANGED tocvars

\* add_html_link queueing the page before it checks the two options.
AddHtmlLinkPages_appends_first(w) ==
    /\ phase = "writing"
    /\ wpc[w] = "check"
    /\ LET minify == options.html_minify
           prettify == options.html_prettify
           page == pagename(wpage[w]) \o <<".html">>
       IN /\ IF minify \/ prettify
             THEN /\ site_pages' = Append(site_pages, page)
                  /\ log' = Append(log, Event("append_page", page))
             ELSE UNCHANGED <<site_pages, log>>
          /\ wpc' = [wpc EXCEPT ![w] = IF minify /\ prettify THEN "ValueError"
                                                             ELSE "returned"]
    /\ UNCHANGED <<options, sitemap_links, manager, wpage, written, exception,
                   phase, sitemap, rewrites>>
    /\ UNCHANGED tocvars

\* add_html_link, from the minify/prettify check on.
AddHtmlLinkPages(w) ==
    /\ phase = "writing"
    /\ wpc[w] = "check"
    /\ LET minify == options.html_minify
           prettify == options.html_prettify
           page == pagename(wpage[w]) \o <<".html">>
       IN IF minify /\ prettify
          THEN /\ wpc' = [wpc EXCEPT ![w] = "ValueError"]
               /\ UNCHANGED <<site_pages, log>>
          ELSE /\ wpc' = [wpc EXCEPT ![w] = "returned"]
               /\ IF minify \/ prettify
                  THEN /\ site_pages' = Append(site_pages, page)
                       /\ log' = Append(log, Event("append_page", page))
                  ELSE UNCHANGED <<site_pages, log>>
    /\ UNCHANGED <<options, sitemap_links, manager, wpage, written, exception,
                   phase, sitemap, rewrites>>
    /\ UNCHANGED tocvars

\* The writers are joined and build-finished is emitted, with the exception
\* the build ended with: the ValueError of a writer, an error from elsewhere
\* in the build, or None.
BuildFinished ==
    /\ phase = "writing"
    /\ \A w \in Workers : wpc[w] \in {"idle", "returned", "ValueError"}
    /\ IF \E w \in Workers : wpc[w] = "ValueError"
       THEN exception' = "ValueError"
       ELSE exception' \in {"None", "BuildError"}
    /\ phase' = "create_sitemap"
    /\ UNCHANGED <<options, sitemap_links, site_pages, manager, wpc, wpage, written,
                   sitemap, rewrites, log>>
    /\ UNCHANGED tocvars

create_sitemap ==
    /\ phase = "create_sitemap"
    /\ IF options.site_url = <<>> \/ exception # "None" \/ sitemap_links = <<>>
       THEN UNCHANGED <<sitemap, sitemap_links, log>>
       ELSE /\ sitemap' = sitemap_links
            /\ sitemap_links' = <<>>
            /\ log' = Append(log, Event("drain_links", <<>>))
    /\ phase' = "reformat_pages"
    /\ UNCHANGED <<options, site_pages, manager, wpc, wpage, written, exception,
                   rewrites>>
    /\ UNCHANGED tocvars

\* reformat_pages.  BeautifulSoup is bound nowhere in the module: the
\* prettify branch raises NameError on the first page, before any write, and
\* the exception leaves the build-finished event.
reformat_pages ==
    /\ phase = "reformat_pages"
    /\ IF exception # "None" \/ site_pages = <<>>
       THEN /\ phase' = "minify_css"
            /\ UNCHANGED <<rewrites, site_pages, log>>
       ELSE IF options.html_minify
            THEN /\ rewrites' = rewrites \o site_pages
                 /\ site_pages' = <<>>
                 /\ log' = Append(log, Event("drain_pages", <<>>))
                 /\ phase' = "minify_css"
            ELSE /\ phase' = "NameError"
                 /\ UNCHANGED <<rewrites, site_pages, log>>
    /\ UNCHANGED <<options, sitemap_links, manager, wpc, wpage, written, exception,
                   sitemap>>
    /\ UNCHANGED tocvars

\* minify_css: both branches end in app.multiprocess_manager.shutdown().
minify_css ==
    /\ phase = "minify_css"
    /\ manager' = "shutdown"
    /\ log' = Append(log, Event("shutdown", <<>>))
    /\ phase' = "done"
    /\ UNCHANGED <<options, sitemap_links, site_pages, wpc, wpage, written,
                   exception, sitemap, rewrites>>
    /\ UNCHANGED tocvars

TocIdle ==
    /\ toc_node = reference(None, <<>>)
    /\ exclude_local = FALSE
    /\ visitor = NewVisitor(FALSE)
    /\ todo = <<>>
    /\ pc = "idle"
    /\ nav = <<>>

BuildInit == setup /\ TocIdle

BuildNext ==
    \/ \E w \in Workers : StartPage(w)
    \/ \E w \in Workers : AddHtmlLinkSitemap(w)
    \/ \E w \in Workers : AddHtmlLinkPages(w)
    \/ BuildFinished
    \/ create_sitemap
    \/ reformat_pages
    \/ minify_css

BuildSpec == BuildInit /\ [][BuildNext]_vars

(***************************************************************************)
(* _get_mkdocs_toc, step by step: toc_node.walk(visitor) dispatches one    *)
(* node of the top-level walk per step; the handlers walk the subtrees     *)
(* they own (visit_list_item, a captioned visit_bullet_list) themselves.   *)
(***************************************************************************)
TocInit ==
    /\ IsTree(toc_node)
    /\ exclude_local \in BOOLEAN
    /\ visitor = NewVisitor(exclude_local)
    /\ todo = << <<>> >>
    /\ pc = "walk"
    /\ nav = <<>>

\* walk() after the handler returned r for the node at path.
Advance(r, node, path) ==
    /\ visitor' = r.v
    /\ IF r.v.exc # "None"
       THEN pc' = "raised" /\ todo' = <<>>
       ELSE /\ pc' = "walk"
            /\ todo' = (IF r.skip THEN <<>> ELSE ChildPaths(node, path)) \o Tail(todo)
    /\ UNCHANGED <<toc_node, exclude_local, nav>>
    /\ UNCHANGED buildvars

AtNode(kind) ==
    /\ pc = "walk"
    /\ todo # <<>>
    /\ NodeAt(toc_node, Head(todo)).kind = kind

Current == NodeAt(toc_node, Head(todo))

VisitReference ==
    AtNode("reference") /\ Advance(visit_reference(visitor, Current), Current, Head(todo))

VisitCompactParagraph ==
    AtNode("compact_paragraph")
    /\ Advance(visit_compact_paragraph(visitor, Current), Current, Head(todo))

VisitToctree ==
    AtNode("toctree") /\ Advance(visit_toctree(visitor, Current), Current, Head(todo))

VisitParagraph ==
    AtNode("paragraph") /\ Advance(visit_paragraph(visitor, Current), Current, Head(todo))

VisitCaption ==
    AtNode("caption")
    /\ Advance(visit_caption(visitor, Current, Head(todo)), Current, Head(todo))

VisitBulletList ==
    AtNode("bullet_list")
    /\ Advance(visit_bullet_list(visitor, Current, Head(todo)), Current, Head(todo))

VisitListItem ==
    AtNode("list_item")
    /\ Advance(visit_list_item(visitor, Current, Head(todo)), Current, Head(todo))

\* return visitor._children
Return ==
    /\ pc = "walk"
    /\ todo = <<>>
    /\ nav' = visitor.children
    /\ pc' = "returned"
    /\ UNCHANGED <<toc_node, exclude_local, visitor, todo>>
    /\ UNCHANGED buildvars

BuildIdle ==
    /\ options = [site_url |-> <<>>, html_minify |-> FALSE,
                  html_prettify |-> FALSE, css_minify |-> FALSE]
    /\ sitemap_links = <<>>
    /\ site_pages = <<>>
    /\ manager = "running"
    /\ wpc = <<>>
    /\ wpage = <<>>
    /\ written = 0
    /\ exception = "None"
    /\ phase = "idle"
    /\ sitemap = <<>>
    /\ rewrites = <<>>
    /\ log = <<>>

Init == TocInit /\ BuildIdle

Next ==
    \/ VisitReference
    \/ VisitCompactParagraph
    \/ VisitToctree
    \/ VisitParagraph
    \/ VisitCaption
    \/ VisitBulletList
    \/ VisitListItem
    \/ Return

Spec == Init /\ [][Next]_vars

\* The step-by-step walk ends as the recursive one does.
WalkAgrees ==
    LET r == _get_mkdocs_toc(toc_node, exclude_local)
    IN /\ pc = "returned" => r.exc = "None" /\ nav = r.value
       /\ pc = "raised" => r.exc = visitor.exc /\ r.exc # "None"

(***************************************************************************)
(* Vocabulary of the properties: the source tree seen from the outside.    *)
(***************************************************************************)
RECURSIVE EntriesOf(_)
\* Every entry of a result list, at any depth.
EntriesOf(es) == UNION {{es[i]} \cup EntriesOf(es[i].children) : i \in 1..Len(es)}

Srcs(es) == [i \in 1..Len(es) |-> es[i].src]

RECURSIVE PathsOf(_, _)
\* The paths of the nodes of a tree that are not below a toctree.
PathsOf(node, path) ==
    {path} \cup
    (IF node.kind = "toctree" THEN {}
     ELSE UNION {PathsOf(node.children[i], Append(path, i))
                 : i \in 1..Len(node.children)})

RECURSIVE AllPathsOf(_, _)
AllPathsOf(node, path) ==
    {path} \cup UNION {AllPathsOf(node.children[i], Append(path, i))
                       : i \in 1..Len(node.children)}

KindAt(path) == NodeAt(toc_node, path).kind

\* The list items a walk can reach.
ListItems == {p \in PathsOf(toc_node, <<>>) : KindAt(p) = "list_item"}

\* The refuris of the references in the subtree at path, toctrees left out.
RefUrisBelow(path) ==
    {NodeAt(toc_node, path \o q).refuri :
        q \in {r \in PathsOf(NodeAt(toc_node, path), <<>>) :
                 NodeAt(toc_node, path \o r).kind = "reference"}}

FragmentOnly(url) == ~url.none /\ url.s # <<>> /\ url.s[1] = "#"
PurePath(url) == ~url.none /\ url.s # <<>> /\ \A i \in 1..Len(url.s) : url.s[i] # "#"
PathThenFragment(url) ==
    ~url.none /\ url.s # <<>> /\ url.s[1] # "#" /\ \E i \in 1..Len(url.s) : url.s[i] = "#"

Returned == pc = "returned"

\* The forest's own list of a captioned layout, and the group made for it.
IsCaptionLayout ==
    /\ toc_node.kind = "compact_paragraph"
    /\ Len(toc_node.children) = 2
    /\ toc_node.children[1].kind = "caption"
    /\ toc_node.children[2].kind = "bullet_list"

\* The refuris of the (leaf) items of the captioned list, in order.
GroupItemUrls ==
    [i \in 1..Len(toc_node.children[2].children) |->
        toc_node.children[2].children[i].children[1].children[1].refuri]

GroupItemsAreLeaves ==
    \A i \in 1..Len(toc_node.children[2].children) :
        Len(toc_node.children[2].children[i].children) = 1

IsMixedGroup ==
    /\ IsCaptionLayout
    /\ GroupItemsAreLeaves
    /\ GroupItemUrls \in {<<PageFragUrl, LocalUrl>>, <<LocalUrl, PageFragUrl>>}

(***************************************************************************)
(* C1: a captioned group with the two items page2.html#x and #a keeps both *)
(* items under exclude_local=True and under exclude_local=False.           *)
(* This is the claim as made; the code prunes both under exclude_local.    *)
(***************************************************************************)
C1_MixedGroupRetained ==
    (Returned /\ IsMixedGroup) => Len(nav) = 1 /\ Len(nav[1].children) = 2

(***************************************************************************)
(* C1 as amended: under exclude_local=True the mixed group keeps neither   *)
(* item (its entry has no children and no url), under exclude_local=False  *)
(* it keeps both; and under exclude_local=True every list item that has an *)
(* entry has, in its subtree, a reference whose url holds no '#': a url    *)
(* with a path and a fragment keeps nothing.                               *)
(***************************************************************************)
C1_MixedGroupPruned ==
    Returned =>
        /\ IsMixedGroup =>
              /\ Len(nav) = 1
              /\ Len(nav[1].children) = (IF exclude_local THEN 0 ELSE 2)
              /\ exclude_local => nav[1].url = None
        /\ exclude_local =>
              \A e \in EntriesOf(nav) :
                  KindAt(e.src) = "list_item" =>
                      \E u \in RefUrisBelow(e.src) : PurePath(u)

C1_Witness == Returned /\ IsMixedGroup /\ exclude_local /\ nav[1].children = <<>>

(***************************************************************************)
(* C2: a captioned group whose items all link to anchors of the page       *)
(* (#a, ...) has, under exclude_local=True, an entry with no children;     *)
(* under exclude_local=False nothing is pruned: every list item a walk     *)
(* reaches (every one outside a toctree) has exactly one entry.            *)
(***************************************************************************)
\* The entries made for the node at path.
EntriesFor(path) == {e \in EntriesOf(nav) : e.src = path}

RECURSIVE CountEntries(_)
CountEntries(es) ==
    IF es = <<>> THEN 0
    ELSE 1 + CountEntries(Head(es).children) + CountEntries(Tail(es))

\* The entries of nav whose source is a list item, counted with repetitions.
RECURSIVE CountItemEntries(_)
CountItemEntries(es) ==
    IF es = <<>> THEN 0
    ELSE (IF KindAt(Head(es).src) = "list_item" THEN 1 ELSE 0)
         + CountItemEntries(Head(es).children) + CountItemEntries(Tail(es))

C2_LocalGroupPruned ==
    Returned =>
        /\ exclude_local =>
              \A e \in EntriesOf(nav) :
                  (/\ KindAt(e.src) = "bullet_list"
                   /\ \A u \in RefUrisBelow(e.src) : FragmentOnly(u))
                  => e.children = <<>>
        /\ ~exclude_local =>
              /\ \A p \in ListItems : EntriesFor(p) # {}
              /\ CountItemEntries(nav) = Cardinality(ListItems)

C2_Witness ==
    /\ Returned /\ exclude_local /\ IsCaptionLayout
    /\ GroupItemsAreLeaves
    /\ GroupItemUrls = <<LocalUrl, LocalUrl>>
    /\ Len(nav) = 1 /\ nav[1].children = <<>>

(***************************************************************************)
(* C3: under exclude_local=True, in a tree of nested list items whose      *)
(* references link either to an anchor of the page or to a page without    *)
(* fragment, a list item has an entry if and only if its own reference or  *)
(* the reference of a list item below it links to a page; so a page link   *)
(* at the deepest level keeps all its ancestors, and their local-only      *)
(* siblings are omitted.                                                   *)
(***************************************************************************)
PlainUrlTree ==
    \A p \in AllPathsOf(toc_node, <<>>) :
        /\ KindAt(p) # "toctree"
        /\ KindAt(p) = "reference" =>
              FragmentOnly(NodeAt(toc_node, p).refuri)
              \/ PurePath(NodeAt(toc_node, p).refuri)

C3_MultiLevelSurvival ==
    (Returned /\ exclude_local /\ PlainUrlTree) =>
        \A p \in ListItems :
            (EntriesFor(p) # {}) <=> (\E u \in RefUrisBelow(p) : PurePath(u))

IsPrefix(p, q) == Len(p) < Len(q) /\ SubSeq(q, 1, Len(p)) = p

\* The refuri of a list item's own reference.
OwnUri(p) == NodeAt(toc_node, p).children[1].children[1].refuri

C3_Witness ==
    /\ Returned /\ exclude_local /\ PlainUrlTree
    /\ \E p1, p2, p3 \in ListItems :
          /\ IsPrefix(p1, p2) /\ IsPrefix(p2, p3)
          /\ FragmentOnly(OwnUri(p1)) /\ FragmentOnly(OwnUri(p2))
          /\ PurePath(OwnUri(p3))
          /\ EntriesFor(p1) # {} /\ EntriesFor(p2) # {} /\ EntriesFor(p3) # {}
          /\ \E q \in ListItems :
                /\ Parent(q) \in {Parent(p1), Parent(p2)}
                /\ EntriesFor(q) = {}

(***************************************************************************)
(* C4: a caption immediately followed, under the same parent, by a bullet  *)
(* list of n items yields exactly one entry (wherever the walk gets to the *)
(* list) whose title is the caption's text, whose children are the entries *)
(* of those of the n items that are not pruned, in order, and whose url is *)
(* the url of the first child of the result, or None without children.     *)
(***************************************************************************)
ChapterTitle == Str(<<"C", "h", "1">>)

\* The bullet lists a walk reaches that directly follow a caption.
CaptionedLists ==
    {p \in PathsOf(toc_node, <<>>) :
        /\ p # <<>>
        /\ KindAt(p) = "bullet_list"
        /\ p[Len(p)] > 1
        /\ KindAt(Append(Parent(p), p[Len(p)] - 1)) = "caption"}

RECURSIVE CountFor(_, _)
\* How many entries were made for the node at path.
CountFor(es, path) ==
    IF es = <<>> THEN 0
    ELSE (IF Head(es).src = path THEN 1 ELSE 0)
         + CountFor(Head(es).children, path) + CountFor(Tail(es), path)

\* The list items of the list at g that pruning leaves.
KeptItems(g) ==
    LET Kept(p) == ~exclude_local
                   \/ \E u \in RefUrisBelow(p) : ~u.none /\ find(u.s, "#") = -1
    IN SelectSeq(ChildPaths(NodeAt(toc_node, g), g), Kept)

\* The walk gets to the list: no list item above it is pruned.
Walked(g) ==
    \A p \in ListItems : IsPrefix(p, g) => EntriesFor(p) # {}

C4_CaptionGrouping ==
    Returned =>
        \A g \in CaptionedLists :
            /\ CountFor(nav, g) = (IF Walked(g) THEN 1 ELSE 0)
            /\ \A e \in EntriesFor(g) :
                  /\ e.title = ChapterTitle
                  /\ Srcs(e.children) = KeptItems(g)
                  /\ e.url = (IF e.children = <<>> THEN None ELSE e.children[1].url)

C4_Witness ==
    /\ Returned /\ exclude_local /\ IsCaptionLayout /\ GroupItemsAreLeaves
    /\ GroupItemUrls = <<LocalUrl, PageUrl, LocalUrl>>
    /\ Len(nav) = 1 /\ nav[1].title = ChapterTitle
    /\ Len(nav[1].children) = 1 /\ nav[1].url = PageUrl

(***************************************************************************)
(* C5: an entry is active if and only if its source node or a node below   *)
(* it is marked iscurrent.  The code copies the marker of the source node  *)
(* alone: a list item that is not marked itself, with a marked bullet list *)
(* or list item below it, gets an entry that is not active.                *)
(***************************************************************************)
MarkedBelow(path) ==
    \E q \in AllPathsOf(NodeAt(toc_node, path), <<>>) :
        NodeAt(toc_node, path \o q).iscurrent

C5_ActiveFromDescendants ==
    Returned => \A e \in EntriesOf(nav) : e.active <=> MarkedBelow(e.src)

(***************************************************************************)
(* C6: a reference without refuri becomes an entry whose url is None, and  *)
(* no exception leaves _get_mkdocs_toc, under either value of              *)
(* exclude_local.  This is the claim; under exclude_local=True the code    *)
(* raises AttributeError.                                                  *)
(***************************************************************************)
NoUriItems == {p \in ListItems : OwnUri(p).none}

C6_NoUriIsNone ==
    (NoUriItems # {} /\ pc \in {"returned", "raised"}) =>
        /\ pc = "returned"
        /\ \A p \in NoUriItems : \A e \in EntriesFor(p) : e.url = None

(***************************************************************************)
(* C7: the entries of every level of the result are in the order of their  *)
(* source nodes, none twice; and every level of the exclude_local=True     *)
(* result is a subsequence of the same level of the exclude_local=False    *)
(* result.                                                                 *)
(***************************************************************************)
\* p comes before q in the document, and neither is inside the other.
Before(p, q) ==
    \E i \in 1..Len(p) :
        /\ i <= Len(q)
        /\ SubSeq(p, 1, i - 1) = SubSeq(q, 1, i - 1)
        /\ p[i] < q[i]

RECURSIVE InSourceOrder(_)
InSourceOrder(es) ==
    /\ \A i, j \in 1..Len(es) : i < j => Before(es[i].src, es[j].src)
    /\ \A i \in 1..Len(es) : InSourceOrder(es[i].children)

RECURSIVE Pruned(_, _)
\* a is what is left of b after removing entries, at every level.
Pruned(a, b) ==
    \A i \in 1..Len(a) :
        \E j \in 1..Len(b) :
            /\ b[j].src = a[i].src
            /\ Pruned(a[i].children, b[j].children)
            /\ \A k \in 1..(i - 1) : \E l \in 1..(j - 1) : b[l].src = a[k].src

C7_OrderPreserved ==
    Returned =>
        /\ InSourceOrder(nav)
        /\ exclude_local => Pruned(nav, _get_mkdocs_toc(toc_node, FALSE).value)

C7_Witness ==
    /\ Returned /\ exclude_local
    /\ Len(nav) >= 2
    /\ Len(nav) < Len(_get_mkdocs_toc(toc_node, FALSE).value)

(***************************************************************************)
(* C8: a toctree node adds no entry and changes nothing in the accumulator *)
(* it is visited with, whatever is below it: the result is the result for  *)
(* the tree with every toctree emptied, no entry comes from below a        *)
(* toctree, and the top-level walk never enters one.                       *)
(***************************************************************************)
RECURSIVE EmptyToctrees(_)
RECURSIVE EmptyToctreesIn(_)
EmptyToctreesIn(children) ==
    IF children = <<>> THEN <<>>
    ELSE <<EmptyToctrees(Head(children))>> \o EmptyToctreesIn(Tail(children))

EmptyToctrees(node) ==
    IF node.kind = "toctree" THEN [node EXCEPT !.children = <<>>]
    ELSE [node EXCEPT !.children = EmptyToctreesIn(node.children)]

BelowToctree(path) ==
    \E i \in 0..(Len(path) - 1) : KindAt(SubSeq(path, 1, i)) = "toctree"

C8_ToctreeSkipped ==
    /\ \A i \in 1..Len(todo) : ~BelowToctree(todo[i])
    /\ Returned =>
          /\ nav = _get_mkdocs_toc(EmptyToctrees(toc_node), exclude_local).value
          /\ \A e \in EntriesOf(nav) : ~BelowToctree(e.src)

\* A list item linking to an anchor, with a toctree in it that holds a list
\* item and a link to a page, was pruned.
C8_Witness ==
    /\ Returned /\ exclude_local
    /\ \E p \in ListItems :
          /\ FragmentOnly(OwnUri(p))
          /\ EntriesFor(p) = {}
          /\ \E i \in 1..Len(NodeAt(toc_node, p).children) :
                LET t == NodeAt(toc_node, p).children[i]
                IN /\ t.kind = "toctree"
                   /\ \E j \in 1..Len(t.children) : t.children[j].kind = "list_item"
                   /\ \E j \in 1..Len(t.children) :
                         t.children[j].kind = "reference" /\ PurePath(t.children[j].refuri)

(***************************************************************************)
(* C9: with html_minify and html_prettify both set, add_html_link raises   *)
(* ValueError for every page instead of queueing it: site_pages stays      *)
(* empty, no call returns, the build ends with the ValueError, and         *)
(* reformat_pages rewrites nothing.                                        *)
(***************************************************************************)
Conflict == options.html_minify /\ options.html_prettify

C9_ConflictFailsFast ==
    Conflict =>
        /\ site_pages = <<>>
        /\ rewrites = <<>>
        /\ \A w \in Workers : wpc[w] # "returned"
        /\ \A i \in 1..Len(log) : log[i].ev # "append_page"
        /\ (phase # "writing" /\ written > 0) => exception = "ValueError"

C9_Witness ==
    /\ Conflict
    /\ written = MaxPages
    /\ \E w \in Workers : wpc[w] = "ValueError"
    /\ exception = "ValueError"
    /\ phase = "done"
    /\ rewrites = <<>>

(***************************************************************************)
(* C10: after any interleaving of the workers' add_html_link calls and the *)
(* build-finished handlers run with exception None, every appended link is *)
(* in the sitemap once, every appended page was rewritten once, both lists *)
(* are empty, and the manager was shut down after both drains.  This is    *)
(* the claim; with html_prettify set reformat_pages raises NameError       *)
(* before its first write, and neither the drain nor the shutdown happen.  *)
(***************************************************************************)
RECURSIVE Logged(_, _)
\* What the events ev of a log carry, in order.
Logged(l, ev) ==
    IF l = <<>> THEN <<>>
    ELSE (IF Head(l).ev = ev THEN <<Head(l).x>> ELSE <<>>) \o Logged(Tail(l), ev)

BuildEnded == phase \in {"done", "NameError"}

C10_HandoffComplete ==
    (BuildEnded /\ exception = "None") =>
        /\ sitemap = Logged(log, "append_link")
        /\ rewrites = Logged(log, "append_page")
        /\ sitemap_links = <<>>
        /\ site_pages = <<>>
        /\ manager = "shutdown"
        /\ log # <<>> /\ log[Len(log)].ev = "shutdown"

\* The captioned lists none of whose items pruning leaves.
LocalOnlyLists == {g \in CaptionedLists : KeptItems(g) = <<>>}

\* The list items holding a captioned list that is local-only.
LocalGroupHolders == {p \in ListItems : \E g \in LocalOnlyLists : Parent(g) = p}

\* The list item's own reference says that it links to another page.
OwnUriKeeps(p) == ~OwnUri(p).none /\ find(OwnUri(p).s, "#") = -1

(***************************************************************************)
(* C11: under exclude_local=True, a captioned bullet list whose items all  *)
(* resolve as local-only has no entry in the result (its caption's title   *)
(* is discarded), and a list item holding such a list has an entry only if *)
(* its own reference keeps it.  This is the claim as made; the code        *)
(* appends the titled entry whatever the list's items resolve to.          *)
(***************************************************************************)
C11_LocalGroupDiscarded ==
    (Returned /\ exclude_local) =>
        /\ \A g \in LocalOnlyLists : EntriesFor(g) = {}
        /\ \A p \in LocalGroupHolders :
              (Walked(p) /\ ~OwnUriKeeps(p)) => EntriesFor(p) = {}

(***************************************************************************)
(* C11 as amended: under exclude_local=True, a captioned bullet list whose *)
(* items all resolve as local-only still has, wherever the walk gets to    *)
(* it, exactly one entry, with the caption's title, no children and url    *)
(* None; and it keeps nothing above it: a list item holding such a list    *)
(* has an entry if and only if no list item above it is pruned and its own *)
(* reference links to a url without '#'.                                   *)
(***************************************************************************)
C11_LocalGroupEmpty ==
    (Returned /\ exclude_local) =>
        /\ \A g \in LocalOnlyLists :
              /\ CountFor(nav, g) = (IF Walked(g) THEN 1 ELSE 0)
              /\ \A e \in EntriesFor(g) :
                    e.title = ChapterTitle /\ e.children = <<>> /\ e.url = None
        /\ \A p \in LocalGroupHolders :
              (EntriesFor(p) # {}) <=> (Walked(p) /\ OwnUriKeeps(p))

\* The top list is captioned and local-only and has its titled, empty entry;
\* one of its items holds a captioned local-only list and is pruned.
C11_Witness ==
    /\ Returned /\ exclude_local /\ IsCaptionLayout
    /\ Len(nav) = 1
    /\ nav[1].title = ChapterTitle /\ nav[1].children = <<>> /\ nav[1].url = None
    /\ \E p \in LocalGroupHolders : Walked(p) /\ EntriesFor(p) = {}

\* The bullet lists a walk can reach.
BulletLists == {p \in PathsOf(toc_node, <<>>) : KindAt(p) = "bullet_list"}

RECURSIVE HasCaption(_)
\* The visitor that gets to the node meets a caption at it or below it: it
\* descends through paragraphs, not into list items, toctrees or references.
HasCaption(node) ==
    \/ node.kind = "caption"
    \/ /\ node.kind \in {"paragraph", "compact_paragraph"}
       /\ \E i \in 1..Len(node.children) : HasCaption(node.children[i])

\* A caption is among the earlier siblings of the list at g, and between the
\* two there is no caption, at or below a sibling, and no bullet list.
PendingAt(g) ==
    /\ g # <<>>
    /\ LET sib == NodeAt(toc_node, Parent(g)).children
           k == g[Len(g)]
       IN \E i \in 1..(k - 1) :
             /\ sib[i].kind = "caption"
             /\ \A j \in (i + 1)..(k - 1) :
                   sib[j].kind # "bullet_list" /\ ~HasCaption(sib[j])

\* The nodes above q whose entry holds the entries made below them.
Scopes(q) ==
    {a \in {SubSeq(q, 1, n) : n \in 0..(Len(q) - 1)} :
        \/ KindAt(a) = "list_item"
        \/ KindAt(a) = "bullet_list" /\ PendingAt(a)}

Range(seq) == {seq[i] : i \in 1..Len(seq)}

\* The sources of the entries of the result list that the entry of the list
\* item at q belongs to.
HolderSrcs(q) ==
    IF Scopes(q) = {} THEN Range(Srcs(nav))
    ELSE LET a == CHOOSE a \in Scopes(q) : \A b \in Scopes(q) : Len(b) <= Len(a)
         IN UNION {Range(Srcs(e.children)) : e \in EntriesFor(a)}

(***************************************************************************)
(* C12: a bullet list the walk gets to is wrapped in a group entry if and  *)
(* only if a caption is its immediately preceding sibling.  This is the    *)
(* claim as made; the code also wraps a list that a paragraph separates    *)
(* from the caption.                                                       *)
(***************************************************************************)
C12_WrappedIffImmediate ==
    Returned =>
        \A g \in BulletLists :
            Walked(g) => ((EntriesFor(g) # {}) <=> (g \in CaptionedLists))

(***************************************************************************)
(* C12 as amended: a bullet list the walk gets to is wrapped in a group    *)
(* entry, titled with the caption's text, if and only if a caption is      *)
(* among its earlier siblings and the visitor met, between the two,        *)
(* neither another caption (at any depth it descends to) nor a bullet list *)
(* that used the caption up; other siblings in between change nothing.     *)
(* The entry of every list item is a direct entry of the result list of    *)
(* the nearest list item or wrapped list above it, or of the result.       *)
(***************************************************************************)
C12_WrappedIffPending ==
    Returned =>
        /\ \A g \in BulletLists :
              /\ CountFor(nav, g) = (IF Walked(g) /\ PendingAt(g) THEN 1 ELSE 0)
              /\ \A e \in EntriesFor(g) : e.title = ChapterTitle
        /\ \A q \in ListItems : EntriesFor(q) # {} => q \in HolderSrcs(q)

\* A list separated from its caption by a paragraph is wrapped, and the list
\* inside that paragraph is not: its item is an entry of the result itself.
C12_Witness ==
    /\ Returned
    /\ \E g \in BulletLists :
          /\ g \notin CaptionedLists
          /\ \E e \in EntriesFor(g) : e.title = ChapterTitle /\ e.children # <<>>
          /\ \E h \in BulletLists :
                /\ Parent(h) # Parent(g) /\ KindAt(Parent(h)) = "paragraph"
                /\ EntriesFor(h) = {}
                /\ Append(h, 1) \in Range(Srcs(nav))

====
